---- MODULE Spec2Model ----
(***************************************************************************)
(* One Session of the RTMP-to-WebRTC relay (src/main.go): the control loop *)
(* of handleWebRTCConnection, the signaling handlers of WebRTCManager, the *)
(* candidate-discovery callback, the ingest task handleMedia with its      *)
(* reader goroutine, and close().  The transport session (peer            *)
(* connection), the control channel and the UDP socket are collaborators:  *)
(* the model records the calls the code makes on them and draws their      *)
(* outcomes from small sets.                                               *)
(***************************************************************************)
EXTENDS Naturals, Sequences, FiniteSets

\* ------------------------------------------------------------------ bounds

\* Inbound control messages the client sends during one Session.
MaxMsgs == 2

\* Local network-path candidates the transport discovers while gathering.
MaxCand == 2

\* Invocations of close() a caller of the manager makes (SpecRepeat only).
MaxClose == 2

\* Datagrams that arrive at the ingest socket during one Session.
MaxPkts == 2

\* Inputs of both kinds together, control messages and datagrams, during one
\* Session: a Session receives at most MaxMsgs messages, at most MaxPkts
\* datagrams, and at most MaxInputs of the two in any mix.
MaxInputs == 2

\* ------------------------------------------------------------ message kinds

\* SignalingMessage as ReadJSON fills it: the type tag, whether the sdp
\* pointer is nil ("none"), parses to a description the transport accepts
\* ("valid") or rejects ("invalid"), and the ice pointer (nil is "none").
\* "garbage" is a frame ReadJSON cannot decode.
NoMsg == [id |-> 0, type |-> "", sdp |-> "none", ice |-> "none"]

MsgShapes ==
    { [type |-> "offer",   sdp |-> "valid",   ice |-> "none"],
      [type |-> "offer",   sdp |-> "invalid", ice |-> "none"],
      [type |-> "offer",   sdp |-> "none",    ice |-> "none"],
      [type |-> "ice",     sdp |-> "none",    ice |-> "c1"],
      [type |-> "ice",     sdp |-> "none",    ice |-> "none"],
      [type |-> "bogus",   sdp |-> "none",    ice |-> "none"],
      [type |-> "answer",  sdp |-> "valid",   ice |-> "none"],
      [type |-> "garbage", sdp |-> "none",    ice |-> "none"] }

WithId(s, i) == [id |-> i, type |-> s.type, sdp |-> s.sdp, ice |-> s.ice]

NoErr == <<>>

VARIABLES
    mainPc,          \* position of the Session's main task
    cur,             \* the message being handled (msg of the loop body)
    err,             \* the error the handler returned (NoErr: nil)
    inbox,           \* inbound messages received and not yet read
    nArrived,        \* number of inbound messages that arrived so far
    chanOpen,        \* the client has not closed the control channel
    connClosed,      \* handleWebSocket's deferred conn.Close() has run
    readFailed,      \* ReadJSON has returned an error
    dispatched,      \* ids of the messages handed to handleSignalingMessage
    nReturned,       \* number of handler invocations that have returned
    ansBefore,       \* answers on the channel when the current handler began
    tracks,          \* tracks registered on the peer connection (AddTrack)
    pcState,         \* peer connection: "none", "open", "closed"
    pcCloseCalls,    \* calls of peerConnection.Close()
    signalingState,  \* "stable" or "have-remote-offer"
    negotiation,     \* number of local descriptions set so far
    gatherState,     \* "new", "gathering", "complete"
    gatherNeg,       \* the negotiation whose SetLocalDescription began gathering
    nCands,          \* candidates discovered so far
    cbPc,            \* OnICECandidate callback: "idle", "lock", "write"
    mu,              \* holder of manager.mu: "free", "main", "cb"
    outbound,        \* messages written to the control channel, in order
    iceCalls,        \* candidates passed to peerConnection.AddICECandidate
    stopClosed,      \* stopChan is closed
    panicMsg,        \* "none", or the runtime panic raised in the main task
    closeCalls,      \* invocations of close() begun
    udpListener,     \* the field m.udpListener: "nil" or "sock"
    sockState,       \* the UDP socket: "none", "open", "closed"
    sockCloseCalls,  \* calls of udpListener.Close()
    sockReleases,    \* times the socket went from open to closed
    ingestPc,        \* handleMedia: "idle", "bind", "spawn", "wait", "exit"
    readerPc,        \* reader goroutine: "none", "select", "read",
                     \* "drainVideo", "drainAudio", "done"
    udpQueue,        \* datagrams received by the socket and not yet read
    ingested,        \* datagrams ReadFrom has returned, in order
    buf,             \* per kind: packets pushed into the sample builder and
                     \* not yet part of a popped sample
    trackWrites,     \* per track: outcome of each WriteSample call, in order
    lateReads,       \* ReadFrom calls made after close() had returned
    lateWrites       \* WriteSample calls made after close() had returned

vars == << mainPc, cur, err, inbox, nArrived, chanOpen, connClosed, readFailed,
           dispatched, nReturned, ansBefore, tracks, pcState, pcCloseCalls,
           signalingState, negotiation, gatherState, gatherNeg, nCands, cbPc,
           mu, outbound, iceCalls, stopClosed, panicMsg, closeCalls,
           udpListener, sockState, sockCloseCalls, sockReleases, ingestPc,
           readerPc, udpQueue, ingested, buf, trackWrites, lateReads,
           lateWrites >>

clientVars == << inbox, nArrived, chanOpen >>
loopVars == << cur, err, readFailed, dispatched, nReturned, ansBefore >>
pcVars == << tracks, pcState, pcCloseCalls, signalingState, negotiation >>
gatherVars == << gatherState, gatherNeg, nCands, cbPc >>
closeVars == << stopClosed, panicMsg, closeCalls, connClosed >>
mediaVars == << udpQueue, ingested, buf, trackWrites, lateReads, lateWrites >>
ingestVars == << udpListener, sockState, sockCloseCalls, sockReleases,
                 ingestPc, readerPc, mediaVars >>

\* ------------------------------------------------------------------ helpers

RECURSIVE CountKind(_, _)
CountKind(s, k) ==
    IF s = <<>> THEN 0
    ELSE (IF Head(s).kind = k THEN 1 ELSE 0) + CountKind(Tail(s), k)

NumAnswers == CountKind(outbound, "answer")

\* wsConn.WriteJSON succeeds while the connection is open at both ends.
WriteOK == chanOpen /\ ~connClosed

Init ==
    /\ mainPc = "create"
    /\ cur = NoMsg
    /\ err = NoErr
    /\ inbox = <<>>
    /\ nArrived = 0
    /\ chanOpen = TRUE
    /\ connClosed = FALSE
    /\ readFailed = FALSE
    /\ dispatched = <<>>
    /\ nReturned = 0
    /\ ansBefore = 0
    /\ tracks = <<>>
    /\ pcState = "none"
    /\ pcCloseCalls = 0
    /\ signalingState = "stable"
    /\ negotiation = 0
    /\ gatherState = "new"
    /\ gatherNeg = 0
    /\ nCands = 0
    /\ cbPc = "idle"
    /\ mu = "free"
    /\ outbound = <<>>
    /\ iceCalls = <<>>
    /\ stopClosed = FALSE
    /\ panicMsg = "none"
    /\ closeCalls = 0
    /\ udpListener = "nil"
    /\ sockState = "none"
    /\ sockCloseCalls = 0
    /\ sockReleases = 0
    /\ ingestPc = "idle"
    /\ readerPc = "none"
    /\ udpQueue = << >>
    /\ ingested = << >>
    /\ buf = [video |-> 0, audio |-> 0]
    /\ trackWrites = [video |-> << >>, audio |-> << >>]
    /\ lateReads = 0
    /\ lateWrites = 0

\* ------------------------------------------------------------------- client

\* The browser sends one control message (any shape, also an undecodable one).
\* Control messages and datagrams the Session has received so far.
InputsSoFar == nArrived + Len(ingested) + Len(udpQueue)

ClientSend ==
    /\ chanOpen
    /\ nArrived < MaxMsgs
    /\ InputsSoFar < MaxInputs
    /\ \E s \in MsgShapes :
          inbox' = Append(inbox, WithId(s, nArrived + 1))
    /\ nArrived' = nArrived + 1
    /\ UNCHANGED << mainPc, chanOpen, loopVars, pcVars, gatherVars, mu,
                    outbound, iceCalls, closeVars, ingestVars >>

\* The browser closes the control channel.
ClientClose ==
    /\ chanOpen
    /\ chanOpen' = FALSE
    /\ UNCHANGED << mainPc, inbox, nArrived, loopVars, pcVars, gatherVars, mu,
                    outbound, iceCalls, closeVars, ingestVars >>

\* ------------------------------------------------------- newWebRTCManager

\* Where construction can fail: "ok" is success, the others name the call
\* whose error newWebRTCManager returns.
SetupOutcomes ==
    { "ok", "codecs", "newpc", "videoTrack", "audioTrack", "addVideo",
      "addAudio" }

\* Tracks registered on the peer connection by the AddTrack calls executed
\* before construction ends with outcome f.
TracksAfterSetup_NoAudio(f) ==
    IF f \in {"ok", "addAudio"} THEN << "video" >> ELSE << >>

TracksAfterSetup(f) ==
    CASE f = "ok"       -> << "video", "audio" >>
      [] f = "addAudio" -> << "video" >>
      [] OTHER          -> << >>

\* The peer connection after construction ends with outcome f: every failure
\* after NewPeerConnection closes it before returning.
PcAfterSetup(f) ==
    CASE f = "ok"                  -> "open"
      [] f \in {"codecs", "newpc"} -> "none"
      [] OTHER                     -> "closed"

NewWebRTCManager ==
    /\ mainPc = "create"
    /\ \E f \in SetupOutcomes :
          /\ tracks' = TracksAfterSetup(f)
          /\ pcState' = PcAfterSetup(f)
          /\ pcCloseCalls' = IF PcAfterSetup(f) = "closed" THEN 1 ELSE 0
          /\ mainPc' = IF f = "ok" THEN "spawn" ELSE "unwind"
    /\ UNCHANGED << clientVars, loopVars, signalingState, negotiation,
                    gatherVars, mu, outbound, iceCalls, closeVars,
                    ingestVars >>

\* go manager.handleMedia()
SpawnIngest ==
    /\ mainPc = "spawn"
    /\ mainPc' = "read"
    /\ ingestPc' = "bind"
    /\ UNCHANGED << clientVars, loopVars, pcVars, gatherVars, mu, outbound,
                    iceCalls, closeVars, udpListener, sockState,
                    sockCloseCalls, sockReleases, readerPc, mediaVars >>

\* ------------------------------------------------ handleWebRTCConnection loop

\* Position in the receive queue of the message ReadJSON returns.
ReadPos_Last(q) == Len(q)

ReadPos(q) == 1

RemoveAt(q, i) == SubSeq(q, 1, i - 1) \o SubSeq(q, i + 1, Len(q))

\* Where the loop goes when ReadJSON returns an error: break, which leaves
\* the function and runs the deferred manager.close().
AfterReadError_Continue == "read"

AfterReadError == "close_stop"

\* ReadJSON returns a message, which the loop hands to handleSignalingMessage.
ReadMessage ==
    /\ mainPc = "read"
    /\ inbox # << >>
    /\ inbox[ReadPos(inbox)].type # "garbage"
    /\ cur' = inbox[ReadPos(inbox)]
    /\ inbox' = RemoveAt(inbox, ReadPos(inbox))
    /\ dispatched' = Append(dispatched, inbox[ReadPos(inbox)].id)
    /\ ansBefore' = NumAnswers
    /\ err' = NoErr
    /\ mainPc' = "dispatch"
    /\ UNCHANGED << nArrived, chanOpen, readFailed, nReturned, pcVars,
                    gatherVars, mu, outbound, iceCalls, closeVars,
                    ingestVars >>

\* ReadJSON returns an error: an undecodable frame, or the channel is closed.
ReadError ==
    /\ mainPc = "read"
    /\ \/ /\ inbox # << >>
          /\ inbox[ReadPos(inbox)].type = "garbage"
          /\ inbox' = RemoveAt(inbox, ReadPos(inbox))
       \/ /\ inbox = << >>
          /\ ~chanOpen
          /\ inbox' = inbox
    /\ readFailed' = TRUE
    /\ mainPc' = AfterReadError
    /\ UNCHANGED << nArrived, chanOpen, cur, err, dispatched, nReturned,
                    ansBefore, pcVars, gatherVars, mu, outbound, iceCalls,
                    closeVars, ingestVars >>

\* The handler returned: the loop logs a non-nil error and reads again.
LoopContinue ==
    /\ mainPc = "returned"
    /\ mainPc' = "read"
    /\ cur' = NoMsg
    /\ err' = NoErr
    /\ ansBefore' = 0
    /\ UNCHANGED << clientVars, readFailed, dispatched, nReturned, pcVars,
                    gatherVars, mu, outbound, iceCalls, closeVars,
                    ingestVars >>

\* ------------------------------------------------- handleSignalingMessage

\* The switch on msg.Type: which handler a type tag selects.
Route_UnknownAsIce(t) ==
    IF t = "offer" THEN "offer" ELSE "ice"

Route(t) ==
    CASE t = "offer" -> "offer"
      [] t = "ice"   -> "ice"
      [] OTHER       -> "unknown"

\* fmt.Errorf("unknown message type: %s", msg.Type)
UnknownTypeError(t) == << "unknown message type", t >>

\* Outcomes of the transport's three negotiation calls for an offer whose
\* description is present: the call that fails, or "ok".
OfferOutcomes(sdp) ==
    IF sdp = "invalid" THEN { "remote" } ELSE { "ok", "answer", "local" }

OfferError(o) ==
    CASE o = "remote" -> << "failed to set remote description" >>
      [] o = "answer" -> << "failed to create answer" >>
      [] o = "local"  -> << "failed to set local description" >>
      [] OTHER        -> NoErr

\* handleOffer up to the wait for gathering: *offer (a nil pointer panics,
\* and the panic runs the deferred manager.close()), SetRemoteDescription,
\* CreateAnswer, SetLocalDescription (which starts candidate gathering).
HandleOffer_LockEarly ==
    /\ mainPc = "dispatch"
    /\ Route(cur.type) = "offer"
    /\ cur.sdp = "valid"
    /\ mu = "free"
    /\ mu' = "main"
    /\ err' = NoErr
    /\ signalingState' = "stable"
    /\ negotiation' = negotiation + 1
    /\ gatherState' = IF gatherState = "new" THEN "gathering" ELSE gatherState
    /\ gatherNeg' = IF gatherState = "new" THEN negotiation + 1 ELSE gatherNeg
    /\ mainPc' = "gatherWait"
    /\ UNCHANGED << clientVars, cur, readFailed, dispatched, nReturned,
                    ansBefore, tracks, pcState, pcCloseCalls, nCands, cbPc,
                    outbound, iceCalls, closeVars, ingestVars >>

HandleOffer ==
    /\ mainPc = "dispatch"
    /\ Route(cur.type) = "offer"
    /\ IF cur.sdp = "none"
       THEN /\ panicMsg' = "nil pointer dereference"
            /\ mainPc' = "close_stop"
            /\ UNCHANGED << err, nReturned, signalingState, negotiation,
                            gatherState, gatherNeg >>
       ELSE /\ \E o \in OfferOutcomes(cur.sdp) :
                 /\ err' = OfferError(o)
                 /\ signalingState' =
                        CASE o = "remote" -> signalingState
                          [] o = "ok"     -> "stable"
                          [] OTHER        -> "have-remote-offer"
                 /\ negotiation' = IF o = "ok" THEN negotiation + 1
                                   ELSE negotiation
                 /\ gatherState' = IF o = "ok" /\ gatherState = "new"
                                   THEN "gathering" ELSE gatherState
                 /\ gatherNeg' = IF o = "ok" /\ gatherState = "new"
                                 THEN negotiation + 1 ELSE gatherNeg
                 /\ mainPc' = IF o = "ok" THEN "gatherWait" ELSE "returned"
                 /\ nReturned' = IF o = "ok" THEN nReturned ELSE nReturned + 1
            /\ UNCHANGED panicMsg
    /\ UNCHANGED << clientVars, cur, readFailed, dispatched, ansBefore,
                    tracks, pcState, pcCloseCalls, nCands, cbPc, mu, outbound,
                    iceCalls, stopClosed, closeCalls, connClosed,
                    ingestVars >>

\* <-gatherComplete is passed once gathering is complete.
GatheringComplete_NoWait == TRUE

GatheringComplete == gatherState = "complete"

AwaitGathering ==
    /\ mainPc = "gatherWait"
    /\ GatheringComplete
    /\ mainPc' = "lock"
    /\ UNCHANGED << clientVars, loopVars, pcVars, gatherVars, mu, outbound,
                    iceCalls, closeVars, ingestVars >>

\* m.mu.Lock() in handleOffer.
LockForAnswer ==
    /\ mainPc = "lock"
    /\ mu = "free"
    /\ mu' = "main"
    /\ mainPc' = "write"
    /\ UNCHANGED << clientVars, loopVars, pcVars, gatherVars, outbound,
                    iceCalls, closeVars, ingestVars >>

\* The messages handleOffer writes to the channel once it holds the lock.
AnswerWrites_Twice(n) ==
    << [kind |-> "answer", neg |-> n], [kind |-> "answer", neg |-> n] >>

AnswerWrites(n) == << [kind |-> "answer", neg |-> n] >>

\* WriteJSON(answer), the deferred Unlock, and the return.
WriteAnswer ==
    /\ mainPc = "write"
    /\ mu = "main"
    /\ IF WriteOK
       THEN /\ outbound' = outbound \o AnswerWrites(negotiation)
            /\ err' = NoErr
       ELSE /\ outbound' = outbound
            /\ err' = << "failed to send answer" >>
    /\ mu' = "free"
    /\ mainPc' = "returned"
    /\ nReturned' = nReturned + 1
    /\ UNCHANGED << clientVars, cur, readFailed, dispatched, ansBefore,
                    pcVars, gatherVars, iceCalls, closeVars, ingestVars >>

\* handleICECandidate: nil is accepted without a call; a candidate is passed
\* to AddICECandidate, whose error (if any) is returned.
HandleICECandidate_NoNilCheck ==
    /\ mainPc = "dispatch"
    /\ Route(cur.type) = "ice"
    /\ iceCalls' = Append(iceCalls, cur.ice)
    /\ err' = NoErr
    /\ mainPc' = "returned"
    /\ nReturned' = nReturned + 1
    /\ UNCHANGED << clientVars, cur, readFailed, dispatched, ansBefore,
                    pcVars, gatherVars, mu, outbound, closeVars, ingestVars >>

HandleICECandidate ==
    /\ mainPc = "dispatch"
    /\ Route(cur.type) = "ice"
    /\ IF cur.ice = "none"
       THEN /\ iceCalls' = iceCalls
            /\ err' = NoErr
       ELSE /\ iceCalls' = Append(iceCalls, cur.ice)
            /\ \E ok \in BOOLEAN :
                  err' = IF ok THEN NoErr
                         ELSE << "add ice candidate failed" >>
    /\ mainPc' = "returned"
    /\ nReturned' = nReturned + 1
    /\ UNCHANGED << clientVars, cur, readFailed, dispatched, ansBefore,
                    pcVars, gatherVars, mu, outbound, closeVars, ingestVars >>

\* The default branch: an error carrying the type, nothing else.
HandleUnknown ==
    /\ mainPc = "dispatch"
    /\ Route(cur.type) = "unknown"
    /\ err' = UnknownTypeError(cur.type)
    /\ mainPc' = "returned"
    /\ nReturned' = nReturned + 1
    /\ UNCHANGED << clientVars, cur, readFailed, dispatched, ansBefore,
                    pcVars, gatherVars, mu, outbound, iceCalls, closeVars,
                    ingestVars >>

\* ------------------------------------------- candidate-discovery callback

\* The transport discovers a local candidate and invokes the callback with
\* it; the callback builds the message and goes for the lock.
DiscoverCandidate ==
    /\ gatherState = "gathering"
    /\ pcState = "open"
    /\ cbPc = "idle"
    /\ nCands < MaxCand
    /\ nCands' = nCands + 1
    /\ cbPc' = "lock"
    /\ UNCHANGED << mainPc, clientVars, loopVars, pcVars, gatherState,
                    gatherNeg, mu, outbound, iceCalls, closeVars,
                    ingestVars >>

\* manager.mu.Lock() in the callback.
CallbackLock_NoLock ==
    /\ cbPc = "lock"
    /\ cbPc' = "write"
    /\ UNCHANGED << mainPc, clientVars, loopVars, pcVars, gatherState,
                    gatherNeg, nCands, mu, outbound, iceCalls, closeVars,
                    ingestVars >>

CallbackLock ==
    /\ cbPc = "lock"
    /\ mu = "free"
    /\ mu' = "cb"
    /\ cbPc' = "write"
    /\ UNCHANGED << mainPc, clientVars, loopVars, pcVars, gatherState,
                    gatherNeg, nCands, outbound, iceCalls, closeVars,
                    ingestVars >>

\* WriteJSON(ice) in the callback (a failure is logged), deferred Unlock.
CallbackWrite ==
    /\ cbPc = "write"
    /\ mu = "cb"
    /\ outbound' = IF WriteOK
                   THEN Append(outbound, [kind |-> "ice", neg |-> gatherNeg])
                   ELSE outbound
    /\ mu' = "free"
    /\ cbPc' = "idle"
    /\ UNCHANGED << mainPc, clientVars, loopVars, pcVars, gatherState,
                    gatherNeg, nCands, iceCalls, closeVars, ingestVars >>

\* Gathering ends: the callback is invoked with nil and returns at once, and
\* the gathering-complete promise is resolved.
GatherDone ==
    /\ gatherState = "gathering"
    /\ cbPc = "idle"
    /\ gatherState' = "complete"
    /\ UNCHANGED << mainPc, clientVars, loopVars, pcVars, gatherNeg, nCands,
                    cbPc, mu, outbound, iceCalls, closeVars, ingestVars >>

\* -------------------------------------------------------------- close()

\* close(m.stopChan): closing a closed channel is a runtime panic, which
\* abandons the rest of close().
CloseStop ==
    /\ mainPc = "close_stop"
    /\ closeCalls' = closeCalls + 1
    /\ IF stopClosed
       THEN /\ panicMsg' = "close of closed channel"
            /\ mainPc' = "panicked"
            /\ UNCHANGED stopClosed
       ELSE /\ stopClosed' = TRUE
            /\ mainPc' = "close_udp"
            /\ UNCHANGED panicMsg
    /\ UNCHANGED << clientVars, loopVars, pcVars, gatherVars, mu, outbound,
                    iceCalls, connClosed, ingestVars >>

\* The values the unsynchronised read of m.udpListener in close() can give:
\* the ingest task writes the field without any ordering with this read, so
\* the read sees the written pointer or still the initial nil.
SeenListener ==
    IF udpListener = "nil" THEN { "nil" } ELSE { "nil", udpListener }

\* if m.udpListener != nil { m.udpListener.Close() }
CloseUDP ==
    /\ mainPc = "close_udp"
    /\ \E seen \in SeenListener :
          IF seen = "nil"
          THEN UNCHANGED << sockState, sockCloseCalls, sockReleases >>
          ELSE /\ sockCloseCalls' = sockCloseCalls + 1
               /\ sockState' = "closed"
               /\ sockReleases' = IF sockState = "open" THEN sockReleases + 1
                                  ELSE sockReleases
    /\ mainPc' = "close_pc"
    /\ UNCHANGED << clientVars, loopVars, pcVars, gatherVars, mu, outbound,
                    iceCalls, closeVars, udpListener, ingestPc, readerPc,
                    mediaVars >>

\* m.peerConnection.Close(); close() returns.
ClosePC ==
    /\ mainPc = "close_pc"
    /\ pcCloseCalls' = pcCloseCalls + 1
    /\ pcState' = "closed"
    /\ mainPc' = IF connClosed THEN "done" ELSE "unwind"
    /\ UNCHANGED << clientVars, loopVars, tracks, signalingState, negotiation,
                    gatherVars, mu, outbound, iceCalls, closeVars,
                    ingestVars >>

\* handleWebSocket's deferred conn.Close().
ConnClose ==
    /\ mainPc = "unwind"
    /\ connClosed' = TRUE
    /\ mainPc' = "done"
    /\ UNCHANGED << clientVars, loopVars, pcVars, gatherVars, mu, outbound,
                    iceCalls, stopClosed, panicMsg, closeCalls, ingestVars >>

\* A caller invokes close() on a manager that was closed before.
CloseAgain ==
    /\ mainPc = "done"
    /\ closeCalls >= 1
    /\ closeCalls < MaxClose
    /\ mainPc' = "close_stop"
    /\ UNCHANGED << clientVars, loopVars, pcVars, gatherVars, mu, outbound,
                    iceCalls, closeVars, ingestVars >>

\* ---------------------------------------------------------- handleMedia

\* net.ListenUDP on the fixed port, assigned to m.udpListener; on an error
\* (the port is taken) handleMedia logs and returns.
BindSocket ==
    /\ ingestPc = "bind"
    /\ \E ok \in BOOLEAN :
          IF ok
          THEN /\ udpListener' = "sock"
               /\ sockState' = "open"
               /\ ingestPc' = "spawn"
          ELSE /\ udpListener' = "nil"
               /\ sockState' = sockState
               /\ ingestPc' = "exit"
    /\ UNCHANGED << mainPc, clientVars, loopVars, pcVars, gatherVars, mu,
                    outbound, iceCalls, closeVars, sockCloseCalls,
                    sockReleases, readerPc, mediaVars >>

\* go func() { ... }(): the reader goroutine starts.
SpawnReader ==
    /\ ingestPc = "spawn"
    /\ ingestPc' = "wait"
    /\ readerPc' = "select"
    /\ UNCHANGED << mainPc, clientVars, loopVars, pcVars, gatherVars, mu,
                    outbound, iceCalls, closeVars, udpListener, sockState,
                    sockCloseCalls, sockReleases, mediaVars >>

\* <-m.stopChan returns, handleMedia returns and its deferred
\* m.udpListener.Close() runs.
IngestExit_NoClose ==
    /\ ingestPc = "wait"
    /\ stopClosed
    /\ ingestPc' = "exit"
    /\ UNCHANGED << mainPc, clientVars, loopVars, pcVars, gatherVars, mu,
                    outbound, iceCalls, closeVars, udpListener, sockState,
                    sockCloseCalls, sockReleases, readerPc, mediaVars >>

IngestExit ==
    /\ ingestPc = "wait"
    /\ stopClosed
    /\ ingestPc' = "exit"
    /\ sockCloseCalls' = sockCloseCalls + 1
    /\ sockState' = "closed"
    /\ sockReleases' = IF sockState = "open" THEN sockReleases + 1
                       ELSE sockReleases
    /\ UNCHANGED << mainPc, clientVars, loopVars, pcVars, gatherVars, mu,
                    outbound, iceCalls, closeVars, udpListener, readerPc,
                    mediaVars >>

\* close() has returned: the deferred manager.close() ran to its end.
CloseReturned ==
    /\ closeCalls >= 1
    /\ mainPc \in { "unwind", "done" }

\* The branch the reader's select takes: the stop case when stopChan is
\* closed (a ready case wins over default), else default.

SelectBranch_AlwaysStop(stop) == "done"

SelectBranch(stop) == IF stop THEN "done" ELSE "read"

ReaderSelect ==
    /\ readerPc = "select"
    /\ readerPc' = SelectBranch(stopClosed)
    /\ UNCHANGED << mainPc, clientVars, loopVars, pcVars, gatherVars, mu,
                    outbound, iceCalls, closeVars, udpListener, sockState,
                    sockCloseCalls, sockReleases, ingestPc, mediaVars >>

\* A datagram as the reader sees it: whether packet.Unmarshal accepts it and
\* the payload type of the parsed packet.
Datagrams ==
    { [parse |-> FALSE, pt |-> 0],
      [parse |-> TRUE,  pt |-> 96],
      [parse |-> TRUE,  pt |-> 111],
      [parse |-> TRUE,  pt |-> 8] }

\* A sender delivers a datagram to the bound socket.
DatagramArrives ==
    /\ sockState = "open"
    /\ Len(ingested) + Len(udpQueue) < MaxPkts
    /\ InputsSoFar < MaxInputs
    /\ \E d \in Datagrams : udpQueue' = Append(udpQueue, d)
    /\ UNCHANGED << mainPc, clientVars, loopVars, pcVars, gatherVars, mu,
                    outbound, iceCalls, closeVars, udpListener, sockState,
                    sockCloseCalls, sockReleases, ingestPc, readerPc,
                    ingested, buf, trackWrites, lateReads, lateWrites >>

\* The switch on packet.PayloadType: the sample builder (and track) a
\* payload type selects, "none" when the packet is dropped.
PayloadKind_AllToVideo(pt) == "video"

PayloadKind(pt) ==
    CASE pt = 96  -> "video"
      [] pt = 111 -> "audio"
      [] OTHER    -> "none"

\* Where the reader goes after ReadFrom or Unmarshal returned an error, and
\* after WriteSample returned one: continue, and the next Pop.
AfterReadFailure_Return == "done"

AfterReadFailure == "select"

AfterWriteFailure(pc) == pc

DrainPc(kind) ==
    CASE kind = "video" -> "drainVideo"
      [] kind = "audio" -> "drainAudio"
      [] OTHER          -> "select"

\* One pass of the default branch up to the Push: SetReadDeadline and
\* ReadFrom (with nothing to read, or on a closed socket, an error: a timeout
\* or another one, after which the loop continues), Unmarshal (an error is
\* logged and the loop continues), the switch on the payload type and the
\* Push into the selected sample builder.
ReaderRead ==
    /\ readerPc = "read"
    /\ lateReads' = IF CloseReturned THEN lateReads + 1 ELSE lateReads
    /\ IF sockState = "open" /\ udpQueue # << >>
       THEN /\ udpQueue' = Tail(udpQueue)
            /\ ingested' = Append(ingested, Head(udpQueue))
            /\ IF ~Head(udpQueue).parse
               THEN /\ readerPc' = AfterReadFailure
                    /\ buf' = buf
               ELSE LET kind == PayloadKind(Head(udpQueue).pt)
                    IN  /\ readerPc' = DrainPc(kind)
                        /\ buf' = IF kind = "none" THEN buf
                                  ELSE [buf EXCEPT ![kind] = @ + 1]
       ELSE /\ readerPc' = AfterReadFailure
            /\ UNCHANGED << udpQueue, ingested, buf >>
    /\ UNCHANGED << mainPc, clientVars, loopVars, pcVars, gatherVars, mu,
                    outbound, iceCalls, closeVars, udpListener, sockState,
                    sockCloseCalls, sockReleases, ingestPc, trackWrites,
                    lateWrites >>

\* The kind whose sample builder the reader is draining.
DrainKind == IF readerPc = "drainVideo" THEN "video" ELSE "audio"

\* One pass of the drain loop: Pop returns nil (break, back to the select)
\* or a sample built from n of the buffered packets, which is written to the
\* kind's track; a WriteSample error is logged and the drain goes on.
ReaderDrain ==
    /\ readerPc \in { "drainVideo", "drainAudio" }
    /\ \E n \in 0..buf[DrainKind] :
          IF n = 0
          THEN /\ readerPc' = "select"
               /\ UNCHANGED << buf, trackWrites, lateWrites >>
          ELSE /\ buf' = [buf EXCEPT ![DrainKind] = @ - n]
               /\ lateWrites' = IF CloseReturned THEN lateWrites + 1
                                ELSE lateWrites
               /\ \E ok \in BOOLEAN :
                     /\ trackWrites' =
                           [trackWrites EXCEPT ![DrainKind] =
                               Append(@, IF ok THEN "ok" ELSE "fail")]
                     /\ readerPc' = IF ok THEN readerPc
                                    ELSE AfterWriteFailure(readerPc)
    /\ UNCHANGED << mainPc, clientVars, loopVars, pcVars, gatherVars, mu,
                    outbound, iceCalls, closeVars, udpListener, sockState,
                    sockCloseCalls, sockReleases, ingestPc, udpQueue,
                    ingested, lateReads >>

\* ------------------------------------------------------- specifications

MainTask ==
    \/ NewWebRTCManager
    \/ SpawnIngest
    \/ ReadMessage
    \/ ReadError
    \/ LoopContinue
    \/ HandleOffer
    \/ AwaitGathering
    \/ LockForAnswer
    \/ WriteAnswer
    \/ HandleICECandidate
    \/ HandleUnknown
    \/ CloseStop
    \/ CloseUDP
    \/ ClosePC
    \/ ConnClose

Transport ==
    \/ DiscoverCandidate
    \/ CallbackLock
    \/ CallbackWrite
    \/ GatherDone

\* handleMedia itself: bind, start the reader, wait for the stop signal.
HandleMediaTask ==
    \/ BindSocket
    \/ SpawnReader
    \/ IngestExit

\* The reader goroutine handleMedia starts.
ReaderTask ==
    \/ ReaderSelect
    \/ ReaderRead
    \/ ReaderDrain

IngestTask == HandleMediaTask \/ ReaderTask

\* The peers of the Session: the client on the control channel and the
\* sender of datagrams to the ingest socket.
Client ==
    \/ ClientSend
    \/ ClientClose
    \/ DatagramArrives

Next == MainTask \/ Transport \/ IngestTask \/ Client

\* The Session as handleWebSocket runs it.
Spec == Init /\ [][Next]_vars

\* The same, with the goroutine of handleWebRTCConnection scheduled fairly:
\* while it can take a step it eventually takes one.
FairSpecMain ==
    /\ Init
    /\ [][Next]_vars
    /\ WF_vars(MainTask)

\* The same, with the two ingest goroutines scheduled fairly.
FairSpecIngest ==
    /\ Init
    /\ [][Next]_vars
    /\ WF_vars(HandleMediaTask)
    /\ WF_vars(ReaderTask)

\* The Session, and a caller that invokes close() again after it returned.
NextRepeat == Next \/ CloseAgain

SpecRepeat == Init /\ [][NextRepeat]_vars

\* ----------------------------------------------------------------- claims

\* A Session has ended: handleWebSocket has returned after close(), and the
\* ingest task has returned.
SessionEnded ==
    /\ mainPc = "done"
    /\ closeCalls >= 1
    /\ ingestPc = "exit"

\* An offer is in flight: handleOffer is waiting for gathering, for the
\* lock, or is about to write the answer.
OfferInFlight == mainPc \in { "gatherWait", "lock", "write" }

\* The shapes the claims call unrecognized or malformed: an unknown type
\* tag, or a known tag whose payload pointer is nil.
Malformed(m) ==
    \/ m.type \notin { "", "offer", "ice" }
    \/ m.type = "offer" /\ m.sdp = "none"
    \/ m.type = "ice" /\ m.ice = "none"

\* C1: every invocation of close() completes without a panic, also a second
\* one after the first returned and one made while the ingest socket was
\* never opened.
C1_CloseIsRepeatable ==
    /\ mainPc # "panicked"
    /\ panicMsg # "close of closed channel"

\* C2: while the loop handles an unrecognized or malformed message the
\* Session stays alive: the main task is still in its loop (about to run the
\* handler, or back from it), no panic was raised and close() has not begun.
C2_MalformedKeepsSessionAlive ==
    Malformed(cur) =>
        /\ mainPc \in { "dispatch", "returned" }
        /\ panicMsg = "none"
        /\ closeCalls = 0
        /\ ~stopClosed

\* C3: when handleOffer returns nil it has written exactly one answer since
\* it was called, when it returns an error it has written none, while it is
\* in flight it has written none yet, and every offer is handled on a peer
\* connection with exactly the video and the audio track registered.
C3_OneAnswerPerOffer ==
    /\ (mainPc = "returned" /\ cur.type = "offer") =>
          IF err = NoErr THEN NumAnswers = ansBefore + 1
          ELSE NumAnswers = ansBefore
    /\ OfferInFlight => NumAnswers = ansBefore
    /\ cur.type = "offer" => tracks = << "video", "audio" >>

C3_Witness ==
    /\ mainPc = "returned"
    /\ cur.type = "offer"
    /\ err = NoErr
    /\ NumAnswers = 1
    /\ tracks = << "video", "audio" >>

\* C4 as claimed: no owned resource has Close called on it twice, and once
\* the Session has ended each one was closed exactly once (the socket if it
\* was opened).
C4_EachResourceClosedOnce ==
    /\ closeCalls <= 1
    /\ pcCloseCalls <= 1
    /\ sockCloseCalls <= 1
    /\ SessionEnded =>
          /\ stopClosed
          /\ pcCloseCalls = 1
          /\ (sockState # "none" => sockCloseCalls = 1)

\* C4 amended: the shutdown signal and the transport session are closed
\* once and the socket is released (goes from open to closed) at most once,
\* while Close may be called on the socket twice, by close() and by the
\* ingest task's deferred Close; once close() has returned and the ingest
\* task has exited, the signal and the transport session are closed and an
\* opened socket has been released exactly once.
C4_EachResourceReleasedOnce ==
    /\ closeCalls <= 1
    /\ pcCloseCalls <= 1
    /\ sockReleases <= 1
    /\ sockCloseCalls <= 2
    /\ SessionEnded =>
          /\ stopClosed
          /\ pcState = "closed"
          /\ pcCloseCalls = 1
          /\ sockState # "open"
          /\ (sockState = "closed" => sockReleases = 1)

C4_Witness ==
    /\ SessionEnded
    /\ sockCloseCalls = 2
    /\ sockReleases = 1

\* C5: messages are handed to the handler in arrival order, at most one
\* handler invocation is unfinished at any time, and while an offer is in
\* flight the last message dispatched is that offer.
C5_DispatchInOrderOneAtATime ==
    /\ \A i \in 1..Len(dispatched) : dispatched[i] = i
    /\ Len(dispatched) \in { nReturned, nReturned + 1 }
    /\ OfferInFlight =>
          /\ Len(dispatched) = nReturned + 1
          /\ dispatched[Len(dispatched)] = cur.id
          /\ cur.type = "offer"

C5_Witness ==
    /\ mainPc = "gatherWait"
    /\ gatherState = "gathering"
    /\ inbox # << >>
    /\ cur.id = 1

\* C6 as claimed: every ice notification on the channel comes after the
\* answer of its negotiation.
C6_AnswerBeforeIce ==
    \A i \in 1..Len(outbound) :
        outbound[i].kind = "ice" =>
            \E j \in 1..(i - 1) :
                /\ outbound[j].kind = "answer"
                /\ outbound[j].neg = outbound[i].neg

\* C6 amended: the answer is written only after candidate gathering has
\* completed, so every ice notification of a negotiation is on the channel
\* before that negotiation's answer, never after it.
C6_IceBeforeAnswer ==
    /\ \A i, j \in 1..Len(outbound) :
          ( /\ outbound[i].kind = "ice"
            /\ outbound[j].kind = "answer"
            /\ outbound[i].neg = outbound[j].neg ) => i < j
    /\ NumAnswers > 0 => gatherState = "complete"

C6_Witness ==
    \E i, j \in 1..Len(outbound) :
        /\ i < j
        /\ outbound[i].kind = "ice"
        /\ outbound[j].kind = "answer"
        /\ outbound[i].neg = outbound[j].neg

\* C7: the step that handles an ice message writes nothing to the channel
\* and returns; with a nil candidate it returns no error and passes nothing
\* to the transport session, with a candidate it passes exactly that
\* candidate once.
C7_IceHandling ==
    [][ (mainPc = "dispatch" /\ cur.type = "ice" /\ mainPc' # "dispatch") =>
           /\ mainPc' = "returned"
           /\ outbound' = outbound
           /\ IF cur.ice = "none"
              THEN /\ err' = NoErr
                   /\ iceCalls' = iceCalls
                   /\ UNCHANGED pcVars
              ELSE iceCalls' = Append(iceCalls, cur.ice) ]_vars

C7_Witness ==
    /\ mainPc = "returned"
    /\ cur.type = "ice"
    /\ cur.ice = "none"
    /\ err = NoErr
    /\ iceCalls = << "c1" >>

\* C8: the step that handles a message with an unrecognized type returns an
\* error carrying that type and changes nothing else: nothing is written,
\* the transport session is as it was, the shutdown signal is not raised
\* and the channel stays open.
C8_UnknownTypeFrame ==
    [][ ( /\ mainPc = "dispatch"
          /\ cur.type \notin { "offer", "ice" }
          /\ mainPc' # "dispatch" ) =>
           /\ mainPc' = "returned"
           /\ err' = << "unknown message type", cur.type >>
           /\ outbound' = outbound
           /\ iceCalls' = iceCalls
           /\ UNCHANGED << pcVars, gatherVars, stopClosed, panicMsg,
                           closeCalls, connClosed >> ]_vars

C8_Witness ==
    /\ mainPc = "returned"
    /\ cur.type = "bogus"
    /\ err = << "unknown message type", "bogus" >>
    /\ ~stopClosed
    /\ ~connClosed

\* C9: once ReadJSON has failed no further message is dispatched, and
\* close() follows: the shutdown signal is raised and the transport session
\* is closed.
C9_ReadFailureTeardown ==
    /\ [][ readFailed => dispatched' = dispatched ]_vars
    /\ readFailed ~> (stopClosed /\ pcState = "closed")

C9_Witness ==
    /\ readFailed
    /\ stopClosed
    /\ pcState = "closed"
    /\ inbox # << >>

\* The reader goroutine is in its loop.
ReaderRunning == readerPc \in { "select", "read", "drainVideo", "drainAudio" }

RECURSIVE CountPt(_, _)
CountPt(q, pt) ==
    IF q = << >> THEN 0
    ELSE (IF Head(q).parse /\ Head(q).pt = pt THEN 1 ELSE 0)
         + CountPt(Tail(q), pt)

\* C13 as claimed: from the start of the ingest task until the shutdown
\* signal is raised the task has not returned and its loop has not stopped.
C13_LoopRunsUntilStop ==
    (ingestPc # "idle" /\ ~stopClosed) =>
        /\ ingestPc # "exit"
        /\ readerPc # "done"

\* C13 amended: once the socket is bound and the loop started, it runs until
\* the shutdown signal is raised, and only that signal stops it; an ingest
\* task that has returned before the signal is one whose bind failed, and
\* that Session never had a loop.
C13_LoopRunsOnceBound ==
    /\ readerPc = "done" => stopClosed
    /\ (readerPc # "none" /\ ~stopClosed) =>
          /\ ReaderRunning
          /\ ingestPc = "wait"
    /\ (ingestPc = "exit" /\ ~stopClosed) =>
          /\ udpListener = "nil"
          /\ sockState = "none"
          /\ readerPc = "none"

C13_Witness ==
    /\ ~stopClosed
    /\ readerPc = "select"
    /\ ingestPc = "wait"
    /\ Len(ingested) >= 2

\* C14: once the shutdown signal is raised, the ingest task returns, the
\* reader goroutine (if it was started) leaves its loop and the socket is
\* not left open.
C14_StopEndsIngest ==
    stopClosed ~>
        ( /\ ingestPc = "exit"
          /\ readerPc \in { "none", "done" }
          /\ sockState # "open" )

C14_Witness ==
    /\ stopClosed
    /\ ingestPc = "exit"
    /\ readerPc = "done"
    /\ sockState = "closed"
    /\ lateReads = 1

\* C15: a task that is writing to the control channel holds the write mutex,
\* and the answer write and an ice write are never in progress together.
C15_WritesUnderMutex ==
    /\ mainPc = "write" => mu = "main"
    /\ cbPc = "write" => mu = "cb"
    /\ ~(mainPc = "write" /\ cbPc = "write")

C15_Witness ==
    /\ mainPc = "write"
    /\ mu = "main"
    /\ Len(outbound) >= 1
    /\ outbound[1].kind = "ice"

\* C16: a datagram read is pushed only into the sample builder its payload
\* type selects (96 video, 111 audio) and into none for any other type or
\* an unparsable datagram; draining one kind touches neither the other
\* kind's builder nor its track; nothing outside a drain writes a track;
\* and a track has no more writes than packets of its payload type read.
C16_RoutedByPayloadType ==
    /\ [][ (readerPc = "read" /\ ingested' # ingested) =>
              /\ trackWrites' = trackWrites
              /\ IF Head(udpQueue).parse /\ Head(udpQueue).pt = 96
                 THEN /\ buf' = [buf EXCEPT !.video = @ + 1]
                      /\ readerPc' = "drainVideo"
                 ELSE IF Head(udpQueue).parse /\ Head(udpQueue).pt = 111
                 THEN /\ buf' = [buf EXCEPT !.audio = @ + 1]
                      /\ readerPc' = "drainAudio"
                 ELSE /\ buf' = buf
                      /\ readerPc' = "select" ]_vars
    /\ [][ readerPc = "drainVideo" =>
              /\ buf'.audio = buf.audio
              /\ trackWrites'.audio = trackWrites.audio ]_vars
    /\ [][ readerPc = "drainAudio" =>
              /\ buf'.video = buf.video
              /\ trackWrites'.video = trackWrites.video ]_vars
    /\ [][ readerPc \notin { "drainVideo", "drainAudio" } =>
              trackWrites' = trackWrites ]_vars
    /\ [] ( /\ Len(trackWrites.video) <= CountPt(ingested, 96)
            /\ Len(trackWrites.audio) <= CountPt(ingested, 111) )

C16_Witness ==
    /\ CountPt(ingested, 96) = 1
    /\ CountPt(ingested, 111) = 1
    /\ Len(trackWrites.video) = 1
    /\ Len(trackWrites.audio) = 1

\* C17: no outcome of a read ends the loop: after a timeout, another read
\* error or a parse failure the reader is back at its select; a failed
\* sample write leaves the reader in the same drain; and the reader leaves
\* the loop only when the shutdown signal is raised.
C17_IngestFailuresContained ==
    /\ [][ readerPc = "read" => readerPc' # "done" ]_vars
    /\ [][ ( /\ readerPc = "read"
             /\ readerPc' # "read"
             /\ (ingested' = ingested \/ ~Head(udpQueue).parse) ) =>
              readerPc' = "select" ]_vars
    /\ [][ ( /\ readerPc \in { "drainVideo", "drainAudio" }
             /\ trackWrites' # trackWrites
             /\ trackWrites'[DrainKind][Len(trackWrites'[DrainKind])]
                    = "fail" ) =>
              readerPc' = readerPc ]_vars
    /\ [] (readerPc = "done" => stopClosed)

C17_Witness ==
    /\ Len(ingested) >= 2
    /\ ~ingested[1].parse
    /\ ingested[2].parse
    /\ ingested[2].pt = 96
    /\ trackWrites.video = << "ok" >>
    /\ ~stopClosed

\* C18: handleOffer holds the write mutex only for the write itself, never
\* while it waits for gathering, and the callback holds it only for its own
\* write: a callback that wants the lock while the offer waits finds it free.
C18_NoLockWhileGathering ==
    /\ mu = "main" => mainPc = "write"
    /\ mu = "cb" => cbPc = "write"
    /\ mainPc = "gatherWait" => mu # "main"
    /\ (mainPc = "gatherWait" /\ cbPc = "lock") => mu = "free"

C18_Witness ==
    /\ mainPc = "gatherWait"
    /\ gatherState = "gathering"
    /\ cbPc = "write"
    /\ mu = "cb"

\* C19: after close() has returned the ingest task makes no socket read and
\* no sample write.
C19_NothingAfterClose ==
    /\ lateReads = 0
    /\ lateWrites = 0

====
